---- MODULE Spec2Model ----
(***************************************************************************)
(* Model of src/server.js: the portfolio contact backend.  The file holds  *)
(* two Express applications: the earlier permissive one (lines 1-98) and   *)
(* the later "secure mode" one (lines 100-272).  Both register a handler   *)
(* for POST /api/contact.  A request is followed through the middleware    *)
(* chain and through the handler, which is suspended at each await.        *)
(***************************************************************************)
EXTENDS Integers, Sequences, FiniteSets, TLC

VARIABLES
    reqs,    \* the requests being handled: position, inputs, locals, calls made, response
    hits,    \* the limiter's store: hits counted per caller address in the current window
    passed,  \* per caller address, the requests the limiter let through in the current window
    env      \* process.env

vars == <<reqs, hits, passed, env>>

---------------------------------------------------------------------------
(* Bounds of the model *)

\* number of requests followed at the same time in the concurrent specification
MaxInFlight == 2
\* requests one caller address may present to the limiter inside one window
MaxHits == 6

---------------------------------------------------------------------------
(* Program constants *)

\* rateLimit({ max: 5 })
max == 5
\* message.length > 2000
MaxMessageLength == 2000
\* data.score < 0.3, scores are counted in tenths
ScoreThreshold == 3

allowedOrigins ==
    { "http://localhost:3000", "http://localhost:5173",
      "https://portfolio-c863d.web.app", "https://rohitdev-portfolio.web.app" }

---------------------------------------------------------------------------
(* JavaScript strings, run-length encoded: a sequence of runs [ch, n]. *)

Run(c, k) == [ch |-> c, n |-> k]

IsSpace(c) == c = " "

RECURSIVE StrLen(_)
StrLen(s) == IF s = <<>> THEN 0 ELSE Head(s).n + StrLen(Tail(s))

RECURSIVE TrimStart(_)
TrimStart(s) ==
    IF s = <<>> THEN <<>>
    ELSE IF IsSpace(Head(s).ch) THEN TrimStart(Tail(s)) ELSE s

RECURSIVE TrimEnd(_)
TrimEnd(s) ==
    IF s = <<>> THEN <<>>
    ELSE IF IsSpace(s[Len(s)].ch) THEN TrimEnd(SubSeq(s, 1, Len(s) - 1)) ELSE s

\* String.prototype.trim
trim(s) == TrimEnd(TrimStart(s))

\* the characters of a string, one by one
RECURSIVE Chars(_)
Chars(s) ==
    IF s = <<>> THEN <<>>
    ELSE IF Head(s).n = 1 THEN <<Head(s).ch>> \o Chars(Tail(s))
    ELSE <<Head(s).ch>> \o Chars(<<Run(Head(s).ch, Head(s).n - 1)>> \o Tail(s))

\* [^\s@]+ over e[a..b]
Plain(e, a, b) == a <= b /\ \A k \in a..b : ~IsSpace(e[k]) /\ e[k] # "@"

\* /^[^\s@]+@[^\s@]+\.[^\s@]+$/.test(s)
emailRegexTest(s) ==
    LET e == Chars(s) IN
    \E i \in 1..Len(e) :
        /\ e[i] = "@"
        /\ Plain(e, 1, i - 1)
        /\ \E j \in (i + 1)..Len(e) :
              /\ e[j] = "."
              /\ Plain(e, i + 1, j - 1)
              /\ Plain(e, j + 1, Len(e))

---------------------------------------------------------------------------
(* JavaScript values carried by the fields of req.body *)

Undefined == [t |-> "undefined", s |-> <<>>, n |-> 0]
Str(s) == [t |-> "string", s |-> s, n |-> 0]
Num(k) == [t |-> "number", s |-> <<>>, n |-> k]

\* ToBoolean
Truthy(v) == (v.t = "string" /\ v.s # <<>>) \/ (v.t = "number" /\ v.n # 0)

\* `v ? v.trim() : ''` throws a TypeError when v is truthy and has no trim method
TrimThrows(v) == Truthy(v) /\ v.t # "string"
TrimOrEmpty(v) == IF Truthy(v) THEN trim(v.s) ELSE <<>>

---------------------------------------------------------------------------
(* Responses *)

NoResponse == [status |-> 0, envelope |-> FALSE, success |-> FALSE, message |-> ""]
Json(st, ok, msg) == [status |-> st, envelope |-> TRUE, success |-> ok, message |-> msg]
\* the answer of Express's default error handler: not the result envelope
ErrorPage(st) == [status |-> st, envelope |-> FALSE, success |-> FALSE, message |-> ""]

NoData == [kind |-> "none", error |-> FALSE, format_valid |-> FALSE,
           mx_found |-> FALSE, smtp_check |-> FALSE, score |-> 0]
Thrown == [NoData EXCEPT !.kind = "throw"]
Data(er, fv, mx, sm, sc) ==
    [kind |-> "data", error |-> er, format_valid |-> fv,
     mx_found |-> mx, smtp_check |-> sm, score |-> sc]

NoMail == [to |-> "", replyTo |-> <<>>, name |-> <<>>, message |-> <<>>]

NoBody == [name |-> Undefined, email |-> Undefined, message |-> Undefined]

Free == [pc |-> "free", app |-> "none", ip |-> "", origin |-> "", body |-> NoBody,
         name |-> <<>>, email |-> <<>>, message |-> <<>>,
         verifyCalls |-> 0, sendCalls |-> 0,
         data |-> NoData, sent |-> "none", mail |-> NoMail, res |-> NoResponse]

Slots == DOMAIN reqs

Ended(r) == r.pc \in {"done", "escaped"}


---------------------------------------------------------------------------
(* Inputs *)

Sp == <<Run(" ", 1)>>
Ann == <<Run("A", 1), Run("n", 2)>>
Hi == <<Run("H", 1), Run("i", 1)>>
Good == <<Run("a", 1), Run("@", 1), Run("b", 1), Run(".", 1), Run("c", 1)>>

Names == { Undefined, Str(<<Run(" ", 2)>>), Str(Ann), Str(Sp \o Ann), Num(5) }

Emails ==
    { Undefined,
      Str(Sp),
      Str(Good),
      Str(Sp \o Good \o Sp),
      Str(<<Run("a", 1), Run("@", 1), Run("b", 1)>>),
      Str(<<Run("a", 1), Run("@", 1), Run(".", 1), Run("c", 1)>>),
      Str(<<Run("a", 1), Run(" ", 1), Run("@", 1), Run("b", 1), Run(".", 1), Run("c", 1)>>),
      Str(<<Run("a", 1), Run("@", 2), Run("b", 1), Run(".", 1), Run("c", 1)>>),
      Num(5) }

Messages ==
    { Str(<<>>),
      Str(Hi),
      Str(<<Run("a", MaxMessageLength)>>),
      Str(<<Run("a", MaxMessageLength + 1)>>),
      Str(Sp \o <<Run("a", MaxMessageLength)>> \o Sp),
      Num(0),
      Num(5) }

Bodies == [name : Names, email : Emails, message : Messages]

\* the bodies used where several requests are followed at once
FewBodies ==
    { [name |-> Str(Ann), email |-> Str(Good), message |-> Str(Hi)],
      [name |-> Str(Ann), email |-> Str(Good), message |-> Str(Sp)] }

Callers == {"ip1", "ip2"}
Origins == {"", "https://rohitdev-portfolio.web.app", "https://evil.example"}

Scores == {2, 3, 9}
VerifyResults ==
    {Thrown} \cup
    { Data(er, fv, mx, sm, sc) :
        er \in BOOLEAN, fv \in BOOLEAN, mx \in BOOLEAN, sm \in BOOLEAN, sc \in Scores }
FewVerifyResults ==
    { Thrown, Data(FALSE, TRUE, TRUE, TRUE, 9), Data(FALSE, TRUE, TRUE, FALSE, 9),
      Data(FALSE, TRUE, FALSE, FALSE, 9) }

Envs == [RECEIVER_EMAIL : {"", "owner@site"}, MAILBOXLAYER_API_KEY : {"", "key"}]

---------------------------------------------------------------------------
(* The secure application, lines 100-272 *)

Finish(r, response) == [r EXCEPT !.pc = "done", !.res = response]

\* cors({ origin: function (origin, callback) ... }): an error goes to next(err)
CorsStep(r) ==
    IF r.origin = "" THEN [r EXCEPT !.pc = "json"]
    ELSE IF r.origin \notin allowedOrigins THEN Finish(r, ErrorPage(500))
    ELSE [r EXCEPT !.pc = "json"]

\* express.json(): the body is read and parsed, the request goes on to the limiter
ParseJson(r) == IF r.pc = "json" THEN [r EXCEPT !.pc = "limiter"] ELSE r

\* a request is received by the secure application and passes the two global middlewares
Receive(s, i, o, b) ==
    /\ reqs[s].pc = "free"
    /\ \A u \in Slots : u < s => reqs[u].pc # "free"
    /\ reqs' = [reqs EXCEPT ![s] =
                  ParseJson(CorsStep([Free EXCEPT !.pc = "cors", !.app = "strict",
                                                  !.ip = i, !.origin = o, !.body = b]))]
    /\ UNCHANGED <<hits, passed, env>>

LimitedFromSeventh(n) == n > max + 1

\* the limiter refuses a request whose hit number exceeds max
Limited(n) == n > max

incrementLost(h, i) == h

\* the store counts one more hit for the key
increment(h, i) == [h EXCEPT ![i] = @ + 1]

TooMany == Json(429, FALSE, "Too many requests, please try again later.")

\* contactLimiter: the hit is counted, then the request is let through or refused
contactLimiter(s) ==
    LET r == reqs[s]
        h == increment(hits, r.ip)
        n == h[r.ip]
    IN  /\ r.pc = "limiter"
        /\ hits[r.ip] < MaxHits
        /\ hits' = h
        /\ IF Limited(n)
           THEN /\ reqs' = [reqs EXCEPT ![s] = Finish(r, TooMany)]
                /\ UNCHANGED passed
           ELSE /\ reqs' = [reqs EXCEPT ![s].pc = "handler"]
                /\ passed' = [passed EXCEPT ![r.ip] = @ + 1]
        /\ UNCHANGED env

\* the limiter's window of a caller address elapses
WindowElapse(i) ==
    /\ hits[i] > 0
    /\ hits' = [hits EXCEPT ![i] = 0]
    /\ passed' = [passed EXCEPT ![i] = 0]
    /\ UNCHANGED <<reqs, env>>

ReceiverNeverMissing(e) == FALSE

\* !process.env.RECEIVER_EMAIL
ReceiverMissing(e) == e.RECEIVER_EMAIL = ""

\* lines 154-181: the checks made before the try block
Validate(r) ==
    LET b == r.body IN
    IF TrimThrows(b.name) \/ TrimThrows(b.email) \/ TrimThrows(b.message)
    THEN [r EXCEPT !.pc = "escaped"]
    ELSE
      LET name == TrimOrEmpty(b.name)
          email == TrimOrEmpty(b.email)
          message == TrimOrEmpty(b.message)
          q == [r EXCEPT !.name = name, !.email = email, !.message = message]
      IN  IF name = <<>> \/ email = <<>> \/ message = <<>>
          THEN Finish(q, Json(400, FALSE, "All fields are required."))
          ELSE IF ~emailRegexTest(email)
          THEN Finish(q, Json(400, FALSE, "Invalid email format."))
          ELSE IF StrLen(message) > MaxMessageLength
          THEN Finish(q, Json(400, FALSE, "Message is too long (limit 2000 chars)."))
          ELSE IF ReceiverMissing(env)
          THEN Finish(q, Json(500, FALSE,
                 "Server configuration error: No receiver email configured."))
          ELSE [q EXCEPT !.pc = "try"]

\* lines 183-199: the start of the try block, up to the await of axios.get
StartVerify(q) ==
    IF q.pc # "try" THEN q
    ELSE IF env.MAILBOXLAYER_API_KEY = ""
    THEN Finish(q, Json(500, FALSE, "Server configuration error: Verification key missing."))
    ELSE [q EXCEPT !.pc = "awaitVerify", !.verifyCalls = @ + 1]

\* app.post('/api/contact', ...) of the secure application, up to its first await
Contact(s) ==
    /\ reqs[s].pc = "handler"
    /\ reqs[s].app = "strict"
    /\ reqs' = [reqs EXCEPT ![s] = StartVerify(Validate(reqs[s]))]
    /\ UNCHANGED <<hits, passed, env>>

isVerifiedWithSmtp(data) == data.format_valid /\ data.mx_found /\ data.smtp_check

isVerified(data) == data.format_valid /\ data.mx_found

ScoreNeverLow(data) == FALSE

\* data.score < 0.3
ScoreTooLow(data) == data.score < ScoreThreshold

mailOptionsUntrimmed(q) ==
    [to |-> env.RECEIVER_EMAIL, replyTo |-> q.body.email.s, name |-> q.name,
     message |-> q.message]

mailOptions(q) ==
    [to |-> env.RECEIVER_EMAIL, replyTo |-> q.email, name |-> q.name, message |-> q.message]

\* lines 236-259: createTransport and the call of sendMail
StartSend(q) ==
    [q EXCEPT !.pc = "awaitSend", !.sendCalls = @ + 1, !.mail = mailOptions(q)]

\* lines 199-234: the continuation after axios.get
AfterVerify(r, d) ==
    LET q == [r EXCEPT !.data = d] IN
    IF d.kind = "throw"
    THEN Finish(q, Json(500, FALSE,
           "Email verification failed. Please check your email or try again later."))
    ELSE IF d.error
    THEN Finish(q, Json(500, FALSE, "Email verification service unavailable."))
    ELSE IF ~isVerified(d)
    THEN Finish(q, Json(400, FALSE, "Email address appears invalid (MX record not found)."))
    ELSE IF ScoreTooLow(d)
    THEN Finish(q, Json(400, FALSE, "Email blocked by security score."))
    ELSE LET shouldSend == TRUE IN
         IF ~shouldSend
         THEN Finish(q, Json(400, FALSE, "Email validation failed."))
         ELSE StartSend(q)

VerifyReturn(s, d) ==
    /\ reqs[s].pc = "awaitVerify"
    /\ reqs[s].app = "strict"
    /\ reqs' = [reqs EXCEPT ![s] = AfterVerify(reqs[s], d)]
    /\ UNCHANGED <<hits, passed, env>>

AfterSendRetry(r, ok) ==
    IF ok THEN Finish([r EXCEPT !.sent = "ok"], Json(200, TRUE, "Message sent successfully!"))
    ELSE StartSend([r EXCEPT !.sent = "throw"])

\* lines 259-268: the continuation after sendMail
AfterSend(r, ok) ==
    IF ok THEN Finish([r EXCEPT !.sent = "ok"], Json(200, TRUE, "Message sent successfully!"))
    ELSE Finish([r EXCEPT !.sent = "throw"],
                Json(500, FALSE, "Internal server error: sendMail failed"))

SendReturn(s, ok) ==
    /\ reqs[s].pc = "awaitSend"
    /\ reqs[s].app = "strict"
    /\ reqs' = [reqs EXCEPT ![s] = AfterSend(reqs[s], ok)]
    /\ UNCHANGED <<hits, passed, env>>

\* the request object of an ended request is discarded
Release(s) ==
    /\ Ended(reqs[s])
    /\ reqs' = [reqs EXCEPT ![s] = Free]
    /\ UNCHANGED <<hits, passed, env>>

---------------------------------------------------------------------------
(* The earlier application, lines 1-98: cors() lets every origin in and    *)
(* there is no limiter, so a request goes straight to the handler.         *)

LegacyArrive(s, b) ==
    /\ reqs[s].pc = "free"
    /\ reqs' = [reqs EXCEPT ![s] =
                  [Free EXCEPT !.pc = "handler", !.app = "legacy", !.ip = "ip1", !.body = b]]
    /\ UNCHANGED <<hits, passed, env>>

\* `${v}` of a field value
ToText(v) ==
    IF v.t = "string" THEN v.s
    ELSE IF v.t = "number" THEN <<Run("#", 1)>>
    ELSE <<Run("?", 1)>>

LegacyMailOptions(q) ==
    [to |-> IF env.RECEIVER_EMAIL # "" THEN env.RECEIVER_EMAIL ELSE "rrwr@gmail.com",
     replyTo |-> q.email, name |-> q.name, message |-> q.message]

\* lines 59-84
LegacyStartSend(q) ==
    [q EXCEPT !.pc = "awaitSend", !.sendCalls = @ + 1, !.mail = LegacyMailOptions(q)]

\* lines 21-36: up to the await of axios.get, or of sendMail without a key
LegacyStart(r) ==
    LET b == r.body
        q == [r EXCEPT !.name = ToText(b.name), !.email = ToText(b.email),
                       !.message = ToText(b.message)]
    IN  IF ~Truthy(b.name) \/ ~Truthy(b.email) \/ ~Truthy(b.message)
        THEN Finish(r, Json(400, FALSE, "All fields are required."))
        ELSE IF env.MAILBOXLAYER_API_KEY # ""
        THEN [q EXCEPT !.pc = "awaitVerify", !.verifyCalls = @ + 1]
        ELSE LegacyStartSend(q)

LegacyContact(s) ==
    /\ reqs[s].pc = "handler"
    /\ reqs[s].app = "legacy"
    /\ reqs' = [reqs EXCEPT ![s] = LegacyStart(reqs[s])]
    /\ UNCHANGED <<hits, passed, env>>

LegacyIsVerified(data) == data.format_valid /\ data.mx_found /\ data.smtp_check

\* lines 37-57: the continuation after axios.get; the catch only logs
LegacyAfterVerify(r, d) ==
    LET q == [r EXCEPT !.data = d] IN
    IF d.kind = "throw" THEN LegacyStartSend(q)
    ELSE IF ~LegacyIsVerified(d)
    THEN Finish(q, Json(400, FALSE, "Invalid or unverified email address."))
    ELSE LegacyStartSend(q)

LegacyVerifyReturn(s, d) ==
    /\ reqs[s].pc = "awaitVerify"
    /\ reqs[s].app = "legacy"
    /\ reqs' = [reqs EXCEPT ![s] = LegacyAfterVerify(reqs[s], d)]
    /\ UNCHANGED <<hits, passed, env>>

\* lines 84-93
LegacyAfterSend(r, ok) ==
    IF ok THEN Finish([r EXCEPT !.sent = "ok"], Json(200, TRUE, "Message sent successfully!"))
    ELSE Finish([r EXCEPT !.sent = "throw"], Json(500, FALSE, "Internal server error."))

LegacySendReturn(s, ok) ==
    /\ reqs[s].pc = "awaitSend"
    /\ reqs[s].app = "legacy"
    /\ reqs' = [reqs EXCEPT ![s] = LegacyAfterSend(reqs[s], ok)]
    /\ UNCHANGED <<hits, passed, env>>

---------------------------------------------------------------------------
(* Specifications *)

Init ==
    /\ reqs = [s \in 1..1 |-> Free]
    /\ hits = [i \in Callers |-> 0]
    /\ passed = [i \in Callers |-> 0]
    /\ env \in Envs

\* one request at a time through the secure application, every input
Next ==
    \/ \E s \in Slots, o \in Origins, b \in Bodies : Receive(s, "ip1", o, b)
    \/ \E s \in Slots : contactLimiter(s)
    \/ \E i \in Callers : WindowElapse(i)
    \/ \E s \in Slots : Contact(s)
    \/ \E s \in Slots, d \in VerifyResults : VerifyReturn(s, d)
    \/ \E s \in Slots, ok \in BOOLEAN : SendReturn(s, ok)
    \/ \E s \in Slots : Release(s)

Spec == Init /\ [][Next]_vars

InitConc ==
    /\ reqs = [s \in 1..MaxInFlight |-> Free]
    /\ hits = [i \in Callers |-> 0]
    /\ passed = [i \in Callers |-> 0]
    /\ env = [RECEIVER_EMAIL |-> "owner@site", MAILBOXLAYER_API_KEY |-> "key"]

\* several requests in flight in the secure application
NextConc ==
    \/ \E s \in Slots, i \in Callers, b \in FewBodies : Receive(s, i, "", b)
    \/ \E s \in Slots : contactLimiter(s)
    \/ \E i \in Callers : WindowElapse(i)
    \/ \E s \in Slots : Contact(s)
    \/ \E s \in Slots, d \in FewVerifyResults : VerifyReturn(s, d)
    \/ \E s \in Slots, ok \in BOOLEAN : SendReturn(s, ok)
    \/ \E s \in Slots : Release(s)

SpecConc == InitConc /\ [][NextConc]_vars

\* one request at a time through the earlier application
NextLegacy ==
    \/ \E s \in Slots, b \in Bodies : LegacyArrive(s, b)
    \/ \E s \in Slots : LegacyContact(s)
    \/ \E s \in Slots, d \in VerifyResults : LegacyVerifyReturn(s, d)
    \/ \E s \in Slots, ok \in BOOLEAN : LegacySendReturn(s, ok)
    \/ \E s \in Slots : Release(s)

SpecLegacy == Init /\ [][NextLegacy]_vars

TypeOK ==
    /\ \A s \in Slots : reqs[s].pc \in
         {"free", "cors", "json", "limiter", "handler", "awaitVerify", "awaitSend",
          "done", "escaped"}
    /\ \A i \in Callers : hits[i] \in 0..MaxHits /\ passed[i] \in 0..MaxHits

---------------------------------------------------------------------------
(* Notions the properties are stated with *)

Min(a, b) == IF a < b THEN a ELSE b

\* the request was turned away by cors() or by the limiter
CorsRejected(r) == r.pc = "done" /\ ~r.res.envelope
Refused(r) == r.pc = "done" /\ r.res.status = 429

\* the handler has run for the request, at least up to its first await
Handled(r) ==
    \/ r.pc \in {"awaitVerify", "awaitSend", "escaped"}
    \/ r.pc = "done" /\ r.res.envelope /\ r.res.status # 429

\* a field is empty after trimming
EmptyAfterTrim(v) == ~Truthy(v) \/ (v.t = "string" /\ trim(v.s) = <<>>)

\* a text email that is not of the local@domain.tld shape
BadShape(v) == v.t = "string" /\ trim(v.s) # <<>> /\ ~emailRegexTest(trim(v.s))

\* a text message of more than 2000 characters
TooLong(v) == v.t = "string" /\ StrLen(trim(v.s)) > MaxMessageLength

NotFullyValid(b) ==
    \/ EmptyAfterTrim(b.name) \/ EmptyAfterTrim(b.email) \/ EmptyAfterTrim(b.message)
    \/ BadShape(b.email)
    \/ TooLong(b.message)

\* the Submission of the data model: three texts, present, well-formed, within length
FullyValid(b) ==
    /\ b.name.t = "string" /\ b.email.t = "string" /\ b.message.t = "string"
    /\ ~NotFullyValid(b)

ConfigError == Json(500, FALSE, "Server configuration error: No receiver email configured.")
Success == Json(200, TRUE, "Message sent successfully!")

\* the verification response of the success case: format valid, MX found, score >= 0.3
GoodData(d) ==
    d.kind = "data" /\ d.format_valid /\ d.mx_found /\ d.score >= ScoreThreshold

---------------------------------------------------------------------------
(* C1 *)

\* C1: when the call to the verification service throws, the request is answered
\* 500 with success=false and sendMail is not invoked for it.
C1_VerificationFailureBlocksSending ==
    \A s \in Slots :
        reqs[s].data.kind = "throw" =>
            /\ reqs[s].sendCalls = 0
            /\ reqs[s].pc = "done"
            /\ reqs[s].res.status = 500
            /\ reqs[s].res.envelope /\ ~reqs[s].res.success

---------------------------------------------------------------------------
(* C2 *)

\* C2: whatever the body, a request that gets past cors() never ends with an
\* exception leaving the handler: it ends with a result envelope.
C2_NothingEscapes ==
    \A s \in Slots :
        (Ended(reqs[s]) /\ ~CorsRejected(reqs[s])) =>
            /\ reqs[s].pc = "done"
            /\ reqs[s].res.envelope
            /\ (reqs[s].res.success <=> reqs[s].res.status = 200)

---------------------------------------------------------------------------
(* C3 *)

\* C3: a submission with a field empty after trimming, an email not of the
\* local@domain.tld shape or a message of more than 2000 characters is answered
\* 400 by the handler, and neither the verification call nor sendMail is made.
C3_InvalidRejectedBeforeCalls ==
    \A s \in Slots :
        (reqs[s].app = "strict" /\ NotFullyValid(reqs[s].body)) =>
            /\ reqs[s].verifyCalls = 0
            /\ reqs[s].sendCalls = 0
            /\ Handled(reqs[s]) =>
                  /\ reqs[s].pc = "done"
                  /\ reqs[s].res.status = 400
                  /\ ~reqs[s].res.success

---------------------------------------------------------------------------
(* C4 *)

\* C4 as stated: with RECEIVER_EMAIL absent, every request the handler answers
\* gets the 500 configuration error, valid fields or not.
C4_ConfigErrorWhateverTheFields ==
    ReceiverMissing(env) =>
        \A s \in Slots :
            (reqs[s].pc = "done" /\ Handled(reqs[s])) => reqs[s].res = ConfigError

\* C4, amended: with RECEIVER_EMAIL absent, every request that reaches the handler
\* with fields that pass the presence, format and length checks gets the 500
\* configuration error, and no external call is made for it.
C4_ConfigErrorForValidFields ==
    env.RECEIVER_EMAIL = "" =>
        \A s \in Slots :
            (Handled(reqs[s]) /\ FullyValid(reqs[s].body)) =>
                /\ reqs[s].pc = "done"
                /\ reqs[s].res = ConfigError
                /\ reqs[s].verifyCalls = 0
                /\ reqs[s].sendCalls = 0

C4_Witness ==
    /\ env.RECEIVER_EMAIL = ""
    /\ \E s \in Slots :
          /\ FullyValid(reqs[s].body)
          /\ reqs[s].pc = "done"
          /\ reqs[s].res = ConfigError

---------------------------------------------------------------------------
(* C5 *)

---------------------------------------------------------------------------
(* C6 *)

\* C6 as stated: a valid submission, a verification response with format valid,
\* MX found and score >= 0.3, and a successful dispatch give the 200 success
\* envelope, one dispatched message, addressed to the configured recipient, with
\* reply-to equal to the submitted email.
C6_ReplyToIsSubmittedEmail ==
    \A s \in Slots :
        (reqs[s].app = "strict" /\ FullyValid(reqs[s].body)
           /\ GoodData(reqs[s].data) /\ reqs[s].sent = "ok") =>
            /\ reqs[s].res = Success
            /\ reqs[s].sendCalls = 1
            /\ reqs[s].mail.to = env.RECEIVER_EMAIL
            /\ reqs[s].mail.replyTo = reqs[s].body.email.s

\* C6, amended: the same, with reply-to equal to the submitted email trimmed of
\* its surrounding whitespace.
C6_ReplyToIsTrimmedEmail ==
    \A s \in Slots :
        (reqs[s].app = "strict" /\ FullyValid(reqs[s].body)
           /\ GoodData(reqs[s].data) /\ reqs[s].sent = "ok") =>
            /\ reqs[s].res = Success
            /\ reqs[s].sendCalls = 1
            /\ reqs[s].mail.to = env.RECEIVER_EMAIL
            /\ env.RECEIVER_EMAIL # ""
            /\ reqs[s].mail.replyTo = trim(reqs[s].body.email.s)

C6_Witness ==
    \E s \in Slots :
        /\ reqs[s].app = "strict"
        /\ reqs[s].sent = "ok"
        /\ reqs[s].res = Success
        /\ reqs[s].body.email.s # trim(reqs[s].body.email.s)
        /\ reqs[s].mail.replyTo = trim(reqs[s].body.email.s)

---------------------------------------------------------------------------
(* C7 *)

\* C7: of a verification response received for a valid submission, one with an
\* error object is answered 500; otherwise one with format invalid or no MX
\* record is answered 400; otherwise one with a score below 0.3 is answered 400;
\* in the three cases sendMail is not invoked.
C7_VerificationRejections ==
    \A s \in Slots :
        LET r == reqs[s]
            d == r.data
        IN  (r.app = "strict" /\ d.kind = "data") =>
              /\ FullyValid(r.body)
              /\ d.error =>
                    r.pc = "done" /\ r.res.status = 500 /\ ~r.res.success /\ r.sendCalls = 0
              /\ (~d.error /\ (~d.format_valid \/ ~d.mx_found)) =>
                    r.pc = "done" /\ r.res.status = 400 /\ ~r.res.success /\ r.sendCalls = 0
              /\ (~d.error /\ d.format_valid /\ d.mx_found /\ d.score < 3) =>
                    r.pc = "done" /\ r.res.status = 400 /\ ~r.res.success /\ r.sendCalls = 0

C7_Witness ==
    \E s \in Slots :
        LET r == reqs[s] IN
        /\ r.app = "strict" /\ r.data.kind = "data"
        /\ ~r.data.error /\ r.data.format_valid /\ r.data.mx_found /\ r.data.score < 3
        /\ r.pc = "done" /\ r.res.status = 400

---------------------------------------------------------------------------
(* C8 *)

\* C8: one request makes at most one verification call and at most one sendMail
\* call, the sendMail call only after the verification call has returned a
\* response; after a failed verification or a failed dispatch the request is
\* over, nothing is tried again.
C8_SingleShot ==
    \A s \in Slots :
        LET r == reqs[s] IN
        /\ r.verifyCalls <= 1
        /\ r.sendCalls <= 1
        /\ r.sendCalls = 1 => (r.verifyCalls = 1 /\ r.data.kind = "data")
        /\ r.pc = "awaitVerify" => (r.verifyCalls = 1 /\ r.data.kind = "none")
        /\ r.data.kind = "throw" => (r.pc = "done" /\ r.verifyCalls = 1)
        /\ r.sent = "throw" => (r.pc = "done" /\ r.sendCalls = 1)

C8_Witness ==
    \E s \in Slots :
        /\ reqs[s].app = "strict"
        /\ reqs[s].sent = "throw"
        /\ reqs[s].pc = "done"
        /\ reqs[s].verifyCalls = 1 /\ reqs[s].sendCalls = 1

---------------------------------------------------------------------------
(* C9 *)

---------------------------------------------------------------------------
(* C10 *)

SameButSmtp(d, e) ==
    [d EXCEPT !.smtp_check = TRUE] = [e EXCEPT !.smtp_check = TRUE]

====
